---- MODULE Spec2Model ----
(***************************************************************************)
(* Traceability API server (src/server.js, PostgreSQL version, lines       *)
(* 1-205): five request handlers over a shared connection pool, guarded by *)
(* a start-up connection test.  Every handler runs synchronously up to its *)
(* single `await pool.query(...)`, the statement is executed atomically by *)
(* the database, and the handler then answers.  Before its await a handler *)
(* reads nothing but its request and, in /api/product/init, the clock; so  *)
(* only that handler is modelled in two steps, with other requests running *)
(* between them, and the others as one step taken when their statement     *)
(* executes.                                                               *)
(***************************************************************************)
EXTENDS Integers, Sequences, FiniteSets, Bags, TLC

---------------------------------------------------------------------------
(* Bounds of the model *)

\* Math.floor(Math.random() * 1000) takes the values 0..MaxRand
MaxRand == 1
\* the rows of the four tables, the /api/product/init handlers suspended at their
\* await and the ticks of the clock, taken together
MaxLoad == 3

---------------------------------------------------------------------------
(* JavaScript values: a type tag and a payload.  A string is the tuple of  *)
(* its parts, the empty string being the empty tuple.                      *)

Undefined == [t |-> "undefined", v |-> << >>]
Null      == [t |-> "null", v |-> << >>]
Str(s)    == [t |-> "string", v |-> s]
Num(n)    == [t |-> "number", v |-> <<n>>]

EmptyStr == Str(<< >>)

\* the `!x` of the handlers' validation: undefined, null, "" and 0 are falsy
Falsy(x) ==
    \/ x.t \in {"undefined", "null"}
    \/ x.t = "string" /\ x.v = << >>
    \/ x.t = "number" /\ x.v = <<0>>

\* `PID-${Date.now()}-${Math.floor(Math.random() * 1000)}`; the two numbers
\* are separated by "-", so distinct pairs give distinct strings
FormatProductID(ms, r) == Str(<<ms, r>>)

\* a query parameter that is undefined is sent to the database as NULL
ToParam(x) == IF x = Undefined THEN Null ELSE x

---------------------------------------------------------------------------
(* Request inputs.  A client may send any id, also one the server has not  *)
(* generated yet.                                                          *)

PidInputs     == {FormatProductID(1, 0), FormatProductID(2, 0)}
TypeInputs    == {Undefined, Str(<<11>>)}
BatchInputs   == {Str(<<21>>)}
DateInputs    == {Str(<<31>>)}
LatInputs     == {Num(1)}
LonInputs     == {Undefined, Num(2)}
CostInputs    == {Num(5)}
AddressInputs == {Str(<<41>>)}
StoreInputs   == {Str(<<51>>)}

\* required fields that are absent, falsy or usable
AnyId      == {Undefined, EmptyStr, FormatProductID(1, 0)}
AnyDate    == {Undefined} \cup DateInputs
AnyLat     == {Undefined, Num(0)} \cup LatInputs
AnyAddress == {Undefined, EmptyStr} \cup AddressInputs
AnyStore   == {Undefined, EmptyStr} \cup StoreInputs

---------------------------------------------------------------------------
(* State *)

VARIABLES
    phase,          \* "connecting", "listening" or "exited"
    released,       \* client.release() of the start-up test has run
    now,            \* Date.now()
    Products,       \* set of rows of table Products
    FarmerLog,      \* sequence of rows of table FarmerLog, in insertion order
    DistributorLog, \* sequence of rows of table DistributorLog
    RetailerLog,    \* sequence of rows of table RetailerLog
    inflight,       \* bag of the /api/product/init requests whose handler is
                    \* suspended at `await pool.query(...)`
    resp,           \* the response sent by the last step, NoResp if it sent none
    created         \* history: the /api/product/init requests answered 201

tables == <<Products, FarmerLog, DistributorLog, RetailerLog>>
vars == <<phase, released, now, Products, FarmerLog, DistributorLog, RetailerLog,
          inflight, resp, created>>

NoPick == [F |-> 0, D |-> 0, R |-> 0]

NoResp == [op |-> "none", status |-> 0, body |-> "none", req |-> << >>, stmts |-> 0,
           err |-> "none", journey |-> Null, pick |-> NoPick]

\* a response: its status, the key of its JSON body ("error", "message" or
\* "journey") and the journey sent, with the request it answers, the number of
\* statements the handler issued, what made its statement fail, and for a journey
\* the positions of the log rows the joined row was built from
Response(op, status, body, req, stmts, err, journey, pick) ==
    [op |-> op, status |-> status, body |-> body, req |-> req, stmts |-> stmts,
     err |-> err, journey |-> journey, pick |-> pick]

LogOps == {"farmer", "distributor", "retailer"}

\* ids returned by a 201 of /api/product/init
CreatedIds == {c.ProductID : c \in created}

\* what the bound of the model counts
Load ==
    Cardinality(Products) + Len(FarmerLog) + Len(DistributorLog) + Len(RetailerLog)
        + BagCardinality(inflight) + (now - 1)

Init ==
    /\ phase = "connecting"
    /\ released = FALSE
    /\ now = 1
    /\ Products = {}
    /\ FarmerLog = << >>
    /\ DistributorLog = << >>
    /\ RetailerLog = << >>
    /\ inflight = EmptyBag
    /\ resp = NoResp
    /\ created = {}

---------------------------------------------------------------------------
(* Start-up *)

\* pool.connect() resolved: release the client, then listen
StartupOk ==
    /\ phase = "connecting"
    /\ released' = TRUE
    /\ phase' = "listening"
    /\ resp' = NoResp
    /\ UNCHANGED <<now, tables, inflight, created>>

\* variant: the failure is logged and the server listens all the same
StartupFailContinues ==
    /\ phase = "connecting"
    /\ phase' = "listening"
    /\ resp' = NoResp
    /\ UNCHANGED <<released, now, tables, inflight, created>>

\* pool.connect() rejected: process.exit(1)
StartupFail ==
    /\ phase = "connecting"
    /\ phase' = "exited"
    /\ resp' = NoResp
    /\ UNCHANGED <<released, now, tables, inflight, created>>

\* the wall clock advances
Tick ==
    /\ phase # "exited"
    /\ Load < MaxLoad
    /\ now' = now + 1
    /\ resp' = NoResp
    /\ UNCHANGED <<phase, released, tables, inflight, created>>

---------------------------------------------------------------------------
(* The statements *)

\* the primary key of Products: no second row with the same ProductID
ProductsPrimaryKeyFree(rows, id) == \A p \in rows : p.ProductID # id

\* variant: the INSERT written as an upsert, ON CONFLICT (ProductID) DO UPDATE
InsertProductUpsert(rows, id, type, batch) ==
    [ok |-> TRUE,
     rows |-> {p \in rows : p.ProductID # id}
              \cup {[ProductID |-> ToParam(id), ProductType |-> ToParam(type),
                      BatchID |-> ToParam(batch)]}]

\* INSERT INTO Products (ProductID, ProductType, BatchID) VALUES ($1, $2, $3)
\* [ok, rows]: whether the statement succeeded and the table after it
InsertProduct(rows, id, type, batch) ==
    IF ProductsPrimaryKeyFree(rows, id)
    THEN [ok |-> TRUE,
          rows |-> rows \cup {[ProductID |-> ToParam(id), ProductType |-> ToParam(type),
                               BatchID |-> ToParam(batch)]}]
    ELSE [ok |-> FALSE, rows |-> rows]

\* variant: the INSERT replaces the row the ProductID already has
InsertLogOnce(log, row, products) ==
    LET kept == SelectSeq(log, LAMBDA old : old.ProductID # row.ProductID)
    IN  Append(kept, [row EXCEPT !.orphan = \A p \in products : p.ProductID # row.ProductID])

\* variant: the INSERT selects its row from Products, so inserts none for an
\* unknown ProductID
InsertLogIfProduct(log, row, products) ==
    IF \E p \in products : p.ProductID = row.ProductID THEN Append(log, row) ELSE log

\* INSERT INTO FarmerLog / DistributorLog / RetailerLog: the row is appended.
\* `orphan` is history: no Products row had the ProductID when the row went in
InsertLog(log, row, products) ==
    Append(log, [row EXCEPT !.orphan = \A p \in products : p.ProductID # row.ProductID])

FarmerRow(id, date, lat, lon, cost) ==
    [ProductID |-> ToParam(id), DateHarvested |-> ToParam(date),
     Location_Lat |-> ToParam(lat), Location_Lon |-> ToParam(lon),
     InitialCost |-> ToParam(cost), orphan |-> FALSE]

DistributorRow(id, address, date, cost) ==
    [ProductID |-> ToParam(id), Location_Address |-> ToParam(address),
     DateShipped |-> ToParam(date), DistributionCost |-> ToParam(cost), orphan |-> FALSE]

RetailerRow(id, store, date, price) ==
    [ProductID |-> ToParam(id), Store_Name |-> ToParam(store),
     DateSold |-> ToParam(date), FinalPrice |-> ToParam(price), orphan |-> FALSE]

\* variant: INNER JOIN, no all-NULL row
InnerJoin(log, id) == {i \in 1..Len(log) : log[i].ProductID = id}

\* variant: LEFT JOIN without its ON condition
UnconditionalJoin(log, id) == IF log = << >> THEN {0} ELSE 1..Len(log)

\* positions of the rows of a log table a Products row joins with; 0 stands for
\* the all-NULL row a LEFT JOIN supplies when there is none
LeftJoin(log, id) ==
    LET m == {i \in 1..Len(log) : log[i].ProductID = id}
    IN  IF m = {} THEN {0} ELSE m

\* variant: the aliases of the two coordinates exchanged
FarmerFieldsSwapped(f) ==
    IF f = 0
    THEN [DateHarvested |-> Null, farmerLat |-> Null, farmerLon |-> Null, InitialCost |-> Null]
    ELSE [DateHarvested |-> FarmerLog[f].DateHarvested,
          farmerLat |-> FarmerLog[f].Location_Lon,
          farmerLon |-> FarmerLog[f].Location_Lat,
          InitialCost |-> FarmerLog[f].InitialCost]

FarmerFields(f) ==
    IF f = 0
    THEN [DateHarvested |-> Null, farmerLat |-> Null, farmerLon |-> Null, InitialCost |-> Null]
    ELSE [DateHarvested |-> FarmerLog[f].DateHarvested,
          farmerLat |-> FarmerLog[f].Location_Lat,
          farmerLon |-> FarmerLog[f].Location_Lon,
          InitialCost |-> FarmerLog[f].InitialCost]

DistributorFields(d) ==
    IF d = 0
    THEN [DateShipped |-> Null, distributorLocation |-> Null, DistributionCost |-> Null]
    ELSE [DateShipped |-> DistributorLog[d].DateShipped,
          distributorLocation |-> DistributorLog[d].Location_Address,
          DistributionCost |-> DistributorLog[d].DistributionCost]

RetailerFields(r) ==
    IF r = 0
    THEN [DateSold |-> Null, Store_Name |-> Null, FinalPrice |-> Null]
    ELSE [DateSold |-> RetailerLog[r].DateSold, Store_Name |-> RetailerLog[r].Store_Name,
          FinalPrice |-> RetailerLog[r].FinalPrice]

\* the SELECT list: the thirteen columns of the joined row
JourneyRow(p, f, d, r) ==
    p @@ FarmerFields(f) @@ DistributorFields(d) @@ RetailerFields(r)

\* SELECT ... FROM Products P LEFT JOIN FarmerLog F ... LEFT JOIN DistributorLog D ...
\* LEFT JOIN RetailerLog R ... WHERE P.ProductID = $1: the rows of the result, each
\* with the positions of the log rows it was joined from
SelectJourney(id) ==
    {[journey |-> JourneyRow(p, f, d, r), pick |-> [F |-> f, D |-> d, R |-> r]] :
        p \in {q \in Products : q.ProductID = id},
        f \in LeftJoin(FarmerLog, id),
        d \in LeftJoin(DistributorLog, id),
        r \in LeftJoin(RetailerLog, id)}

---------------------------------------------------------------------------
(* The handlers *)

\* variant: the catch block issues the statement once more before it answers
CaughtAfterRetry(op, req, stmts, err) ==
    Response(op, 500, "error", req, stmts + 1, err, Null, NoPick)

\* the catch block of a handler: 500, whatever made the statement fail
Caught(op, req, stmts, err) == Response(op, 500, "error", req, stmts, err, Null, NoPick)

\* variant: the test without its third operand
MissingRequiredTwo(id, date, third) == Falsy(id) \/ Falsy(date)

\* if (!ProductID || !DateHarvested || !Location_Lat), and the same test of the
\* distributor's and retailer's three fields
MissingRequired(id, date, third) == Falsy(id) \/ Falsy(date) \/ Falsy(third)

LogRows == Len(FarmerLog) + Len(DistributorLog) + Len(RetailerLog)

\* app.get('/api/track'): 400 without an id; else the SELECT, which fails (500),
\* returns no row (404) or returns rows, of which rows[0] is sent
GetJourney(id) ==
    LET req == [id |-> id]
        rows == SelectJourney(id)
    IN  /\ phase = "listening"
        /\ IF Falsy(id)
           THEN resp' = Response("track", 400, "error", req, 0, "none", Null, NoPick)
           ELSE \/ resp' = Caught("track", req, 1, "db")
                \/ /\ rows = {}
                   /\ resp' = Response("track", 404, "error", req, 1, "none", Null, NoPick)
                \/ \E first \in rows :
                      resp' = Response("track", 200, "journey", req, 1, "none",
                                       first.journey, first.pick)
        /\ UNCHANGED <<phase, released, now, tables, inflight, created>>

\* app.post('/api/product/init') up to its await: the id is generated from the clock
InitProduct(type, batch) ==
    /\ phase = "listening"
    /\ Load < MaxLoad
    /\ \E r \in 0..MaxRand :
          inflight' = inflight (+) SetToBag({[ProductType |-> type, BatchID |-> batch,
                                              ProductID |-> FormatProductID(now, r)]})
    /\ resp' = NoResp
    /\ UNCHANGED <<phase, released, now, tables, created>>

\* app.post('/api/product/init') from its await on: the INSERT fails, is refused by
\* the primary key, or inserts the row
InitProductReturns(req) ==
    /\ phase = "listening"
    /\ BagIn(req, inflight)
    /\ inflight' = inflight (-) SetToBag({req})
    /\ LET done == InsertProduct(Products, req.ProductID, req.ProductType, req.BatchID)
       IN  \/ /\ resp' = Caught("init", req, 1, "db")
              /\ UNCHANGED <<Products, created>>
           \/ /\ ~done.ok
              /\ resp' = Caught("init", req, 1, "unique")
              /\ UNCHANGED <<Products, created>>
           \/ /\ done.ok
              /\ Products' = done.rows
              /\ created' = created \cup {req}
              /\ resp' = Response("init", 201, "message", req, 1, "none", Null, NoPick)
    /\ UNCHANGED <<phase, released, now, FarmerLog, DistributorLog, RetailerLog>>

\* app.post('/api/log/farmer')
LogFarmer(id, date, lat, lon, cost) ==
    LET req == [ProductID |-> id, DateHarvested |-> date, Location_Lat |-> lat,
                Location_Lon |-> lon, InitialCost |-> cost]
    IN  /\ phase = "listening"
        /\ IF MissingRequired(id, date, lat)
           THEN /\ resp' = Response("farmer", 400, "error", req, 0, "none", Null, NoPick)
                /\ UNCHANGED FarmerLog
           ELSE \/ /\ resp' = Caught("farmer", req, 1, "db")
                   /\ UNCHANGED FarmerLog
                \/ /\ Load < MaxLoad
                   /\ FarmerLog' = InsertLog(FarmerLog, FarmerRow(id, date, lat, lon, cost),
                                             Products)
                   /\ resp' = Response("farmer", 201, "message", req, 1, "none", Null, NoPick)
        /\ UNCHANGED <<phase, released, now, Products, DistributorLog, RetailerLog,
                       inflight, created>>

\* app.post('/api/log/distributor')
LogDistributor(id, address, date, cost) ==
    LET req == [ProductID |-> id, Location_Address |-> address, DateShipped |-> date,
                DistributionCost |-> cost]
    IN  /\ phase = "listening"
        /\ IF MissingRequired(id, date, address)
           THEN /\ resp' = Response("distributor", 400, "error", req, 0, "none", Null, NoPick)
                /\ UNCHANGED DistributorLog
           ELSE \/ /\ resp' = Caught("distributor", req, 1, "db")
                   /\ UNCHANGED DistributorLog
                \/ /\ Load < MaxLoad
                   /\ DistributorLog' = InsertLog(DistributorLog,
                                                  DistributorRow(id, address, date, cost),
                                                  Products)
                   /\ resp' = Response("distributor", 201, "message", req, 1, "none",
                                       Null, NoPick)
        /\ UNCHANGED <<phase, released, now, Products, FarmerLog, RetailerLog,
                       inflight, created>>

\* app.post('/api/log/retailer')
LogRetailer(id, store, date, price) ==
    LET req == [ProductID |-> id, Store_Name |-> store, DateSold |-> date,
                FinalPrice |-> price]
    IN  /\ phase = "listening"
        /\ IF MissingRequired(id, date, store)
           THEN /\ resp' = Response("retailer", 400, "error", req, 0, "none", Null, NoPick)
                /\ UNCHANGED RetailerLog
           ELSE \/ /\ resp' = Caught("retailer", req, 1, "db")
                   /\ UNCHANGED RetailerLog
                \/ /\ Load < MaxLoad
                   /\ RetailerLog' = InsertLog(RetailerLog,
                                               RetailerRow(id, store, date, price),
                                               Products)
                   /\ resp' = Response("retailer", 201, "message", req, 1, "none",
                                       Null, NoPick)
        /\ UNCHANGED <<phase, released, now, Products, FarmerLog, DistributorLog,
                       inflight, created>>

---------------------------------------------------------------------------

\* every /api/product/init request
InitRequests ==
    [ProductType : TypeInputs, BatchID : BatchInputs,
     ProductID : {FormatProductID(ms, r) : ms \in 1..(MaxLoad + 1), r \in 0..MaxRand}]

\* requests whose fields are all usable, and requests without an id
Next ==
    \/ StartupOk
    \/ StartupFail
    \/ Tick
    \/ \E id \in PidInputs \cup {Undefined} : GetJourney(id)
    \/ \E type \in TypeInputs, batch \in BatchInputs : InitProduct(type, batch)
    \/ \E req \in InitRequests : InitProductReturns(req)
    \/ \E id \in PidInputs \cup {Undefined}, date \in DateInputs, lat \in LatInputs,
          lon \in LonInputs, cost \in CostInputs : LogFarmer(id, date, lat, lon, cost)
    \/ \E id \in PidInputs \cup {Undefined}, address \in AddressInputs, date \in DateInputs,
          cost \in CostInputs : LogDistributor(id, address, date, cost)
    \/ \E id \in PidInputs \cup {Undefined}, store \in StoreInputs, date \in DateInputs,
          price \in CostInputs : LogRetailer(id, store, date, price)

Spec == Init /\ [][Next]_vars

\* the same handlers, fed every combination of absent, falsy and usable required fields
NextValidate ==
    \/ StartupOk
    \/ StartupFail
    \/ Tick
    \/ \E id \in AnyId : GetJourney(id)
    \/ \E batch \in BatchInputs : InitProduct(Undefined, batch)
    \/ \E req \in InitRequests : InitProductReturns(req)
    \/ \E id \in AnyId, date \in AnyDate, lat \in AnyLat, cost \in CostInputs :
          LogFarmer(id, date, lat, Undefined, cost)
    \/ \E id \in AnyId, address \in AnyAddress, date \in AnyDate, cost \in CostInputs :
          LogDistributor(id, address, date, cost)
    \/ \E id \in AnyId, store \in AnyStore, date \in AnyDate, price \in CostInputs :
          LogRetailer(id, store, date, price)

SpecValidate == Init /\ [][NextValidate]_vars

---------------------------------------------------------------------------
(* Properties *)

IsTrack(r) == r.op = "track"
IsLog(r)   == r.op \in LogOps
IsInit(r)  == r.op = "init"

HasProduct(id) == \E p \in Products : p.ProductID = id

RowsOf(log, id) == {i \in 1..Len(log) : log[i].ProductID = id}

HasLogRows(id) ==
    RowsOf(FarmerLog, id) \cup RowsOf(DistributorLog, id) \cup RowsOf(RetailerLog, id) # {}

\* `after` is `before` with one more row, for ProductID id, at its end
GrewByOne(before, after, id) ==
    /\ Len(after) = Len(before) + 1
    /\ SubSeq(after, 1, Len(before)) = before
    /\ after[Len(after)].ProductID = id

\* the three required fields of a log request: id, date, designated third field
Required(r) ==
    CASE r.op = "farmer" -> <<r.req.ProductID, r.req.DateHarvested, r.req.Location_Lat>>
      [] r.op = "distributor" -> <<r.req.ProductID, r.req.DateShipped, r.req.Location_Address>>
      [] r.op = "retailer" -> <<r.req.ProductID, r.req.DateSold, r.req.Store_Name>>

SomeAbsent(r) == \E k \in 1..3 : Required(r)[k] = Undefined

FarmerNull(j) ==
    /\ j.DateHarvested = Null /\ j.farmerLat = Null
    /\ j.farmerLon = Null /\ j.InitialCost = Null

DistributorNull(j) ==
    j.DateShipped = Null /\ j.distributorLocation = Null /\ j.DistributionCost = Null

RetailerNull(j) == j.DateSold = Null /\ j.Store_Name = Null /\ j.FinalPrice = Null

FarmerIs(j, row) ==
    /\ j.DateHarvested = row.DateHarvested /\ j.farmerLat = row.Location_Lat
    /\ j.farmerLon = row.Location_Lon /\ j.InitialCost = row.InitialCost

DistributorIs(j, row) ==
    /\ j.DateShipped = row.DateShipped /\ j.distributorLocation = row.Location_Address
    /\ j.DistributionCost = row.DistributionCost

RetailerIs(j, row) ==
    j.DateSold = row.DateSold /\ j.Store_Name = row.Store_Name /\ j.FinalPrice = row.FinalPrice

\* C1: a GetJourney with a non-empty id whose statement does not fail answers 404
\* exactly when Products has no row with that id, and 200 otherwise, whatever log
\* rows the id has.
C1_NotFoundIffNoProduct ==
    (IsTrack(resp) /\ ~Falsy(resp.req.id) /\ resp.err = "none") =>
        /\ resp.status \in {200, 404}
        /\ resp.status = 404 <=> ~HasProduct(resp.req.id)

\* a 404 for an id that has log rows
C1_Witness ==
    IsTrack(resp) /\ resp.status = 404 /\ HasLogRows(resp.req.id)

C3_AbsentFieldRejected ==
    [][(IsLog(resp') /\ SomeAbsent(resp'))
       => (/\ resp'.status = 400
           /\ resp'.body = "error"
           /\ resp'.stmts = 0
           /\ tables' = tables
           /\ inflight' = inflight)]_vars

\* a 400 for a request without any required field, with rows in the tables
C3_Witness ==
    /\ IsLog(resp) /\ resp.status = 400
    /\ \A k \in 1..3 : Required(resp)[k] = Undefined
    /\ Products # {} /\ LogRows > 0

C5_DuplicateRows ==
    /\ [][(IsLog(resp') /\ resp'.status = 201)
          => (/\ resp'.op = "farmer" =>
                    GrewByOne(FarmerLog, FarmerLog', resp'.req.ProductID)
              /\ resp'.op = "distributor" =>
                    GrewByOne(DistributorLog, DistributorLog', resp'.req.ProductID)
              /\ resp'.op = "retailer" =>
                    GrewByOne(RetailerLog, RetailerLog', resp'.req.ProductID))]_vars
    /\ [](( /\ IsTrack(resp) /\ resp.err = "none" /\ ~Falsy(resp.req.id)
            /\ HasProduct(resp.req.id))
          => LET id == resp.req.id
                 j == resp.journey
             IN  /\ resp.status = 200
                 /\ resp.body = "journey"
                 /\ IF RowsOf(FarmerLog, id) = {} THEN FarmerNull(j)
                    ELSE \E i \in RowsOf(FarmerLog, id) : FarmerIs(j, FarmerLog[i])
                 /\ IF RowsOf(DistributorLog, id) = {} THEN DistributorNull(j)
                    ELSE \E i \in RowsOf(DistributorLog, id) : DistributorIs(j, DistributorLog[i])
                 /\ IF RowsOf(RetailerLog, id) = {} THEN RetailerNull(j)
                    ELSE \E i \in RowsOf(RetailerLog, id) : RetailerIs(j, RetailerLog[i]))

\* two farmer rows for p with different values, and a journey built from the second
C5_Witness ==
    /\ IsTrack(resp) /\ resp.status = 200
    /\ RowsOf(FarmerLog, resp.req.id) = {1, 2}
    /\ FarmerLog[1].Location_Lon # FarmerLog[2].Location_Lon
    /\ resp.pick.F = 2
    /\ FarmerIs(resp.journey, FarmerLog[2])

\* a journey built from a log row that went in while its product did not exist
PickedOrphan(r) ==
    \/ r.pick.F # 0 /\ FarmerLog[r.pick.F].orphan
    \/ r.pick.D # 0 /\ DistributorLog[r.pick.D].orphan
    \/ r.pick.R # 0 /\ RetailerLog[r.pick.R].orphan

\* `after` is `before` with one more row at its end, an orphan for ProductID id
GrewByOrphan(before, after, id) ==
    /\ GrewByOne(before, after, id)
    /\ after[Len(after)].orphan

C7_FailureIs500 ==
    [][resp'.err # "none"
       => (/\ resp'.status = 500
           /\ resp'.body = "error"
           /\ resp'.stmts = 1
           /\ tables' = tables)]_vars

\* a failed log statement with rows in every kind of table it could have touched
C7_Witness ==
    /\ IsLog(resp) /\ resp.err = "db" /\ resp.status = 500
    /\ Products # {} /\ LogRows > 0

\* C8: the server listens, and handles requests, only after the start-up
\* connection was obtained and released; and once the process has exited on a
\* failed start-up it takes no further step.
C8_ListenAfterCheck ==
    /\ [](phase = "listening" => released)
    /\ []((resp # NoResp \/ inflight # EmptyBag \/ Products # {} \/ LogRows > 0)
          => (phase = "listening" /\ released))
    /\ [](phase = "exited" => ~released)
    /\ [][phase # "exited"]_vars

\* a request answered by the listening server
C8_Witness ==
    phase = "listening" /\ released /\ resp.status = 201

\* C9 as stated: a log request is answered 400 exactly when one of its three
\* required fields is absent.
C9_PresenceCheckOnly ==
    IsLog(resp) => (resp.status = 400 <=> SomeAbsent(resp))

\* C10: Products never holds two rows with one ProductID and never loses or
\* changes a row; an InitProduct is answered 201 only for a ProductID that had no
\* row, and one whose ProductID has a row is answered 500 and changes nothing.
C10_OneRowPerProductID ==
    /\ [](\A p, q \in Products : p.ProductID = q.ProductID => p = q)
    /\ [][Products \subseteq Products']_vars
    /\ [][(IsInit(resp') /\ resp'.status = 201)
          => (/\ ~HasProduct(resp'.req.ProductID)
              /\ resp'.req.ProductID \notin CreatedIds)]_vars
    /\ [][(IsInit(resp') /\ inflight' # inflight /\ HasProduct(resp'.req.ProductID))
          => (resp'.status = 500 /\ Products' = Products)]_vars

\* an InitProduct refused for a ProductID whose row has another ProductType
C10_Witness ==
    /\ IsInit(resp) /\ resp.err = "unique" /\ resp.status = 500
    /\ \E p \in Products :
          /\ p.ProductID = resp.req.ProductID
          /\ p.ProductType # (IF resp.req.ProductType = Undefined THEN Null
                              ELSE resp.req.ProductType)

====
